---- MODULE Spec2Model ----
(***************************************************************************)
(* Model of sort_kiwix_library.py: the sorter (sort_library_by_path), the  *)
(* verifier (verify_book_ids) and the entry point that wires them.         *)
(*                                                                         *)
(* Files are sequences of one-character strings.  XML parsing and          *)
(* serialisation (xml.etree.ElementTree) and the verifier's regular        *)
(* expression and substring search work on those characters.               *)
(***************************************************************************)
EXTENDS Integers, Sequences, FiniteSets, TLC

VARIABLES
    inputFile,        \* library.xml: [exists, text]
    outputFile,       \* library_sorted.xml: [exists, text]
    pc,               \* position of the program
    root,             \* the sorter's in-memory tree: [tag, attrs, children]
    success,          \* what sort_library_by_path returned: "none", "True", "False"
    console,          \* the printed messages of this run, in order
    all_input_ids,    \* the verifier's list of extracted ids
    inputAtCall,      \* history: inputFile when the sorter was called
    outputAtCall,     \* history: outputFile when the sorter was called
    reachedWrite,     \* history: the sorter reached sorted_tree.write
    verifierCalls,    \* history: number of calls of verify_book_ids in this run
    fedBack           \* history: inputFile is the output of the previous, successful sort

vars == <<inputFile, outputFile, pc, root, success, console, all_input_ids,
          inputAtCall, outputAtCall, reachedWrite, verifierCalls, fedBack>>

(***************************************************************************)
(* Bounds of the model.                                                    *)
(***************************************************************************)
MaxChildren == 3     \* children of the root in an input catalog
MaxInChunks == 3     \* pieces of text an arbitrary verifier input is made of
MaxOutChunks == 2    \* pieces of text an arbitrary verifier output is made of

(***************************************************************************)
(* Characters and literals.                                                *)
(***************************************************************************)
Quote == "\""

NameChars == {"a", "b", "d", "e", "h", "i", "k", "l", "m", "n", "o", "p", "r", "t", "y"}

\* Unicode code points of the characters that occur in sort keys.
Ord(c) ==
    CASE c = "B" -> 66
      [] c = "a" -> 97
      [] c = "b" -> 98
      [] OTHER -> 0

XmlDecl ==
    <<"<", "?", "x", "m", "l", " ", "v", "e", "r", "s", "i", "o", "n", "=", "'",
      "1", ".", "0", "'", " ", "e", "n", "c", "o", "d", "i", "n", "g", "=", "'",
      "u", "t", "f", "-", "8", "'", "?", ">", "\n">>

BookTag == <<"b", "o", "o", "k">>
PathAttr == <<"p", "a", "t", "h">>
IdAttr == <<"i", "d">>

\* the literal prefix of the verifier's regular expression: book id="
BookIdPrefix == <<"b", "o", "o", "k", " ", "i", "d", "=", Quote>>
\* the literal prefix of the verifier's search pattern: id="
IdPrefix == <<"i", "d", "=", Quote>>

(***************************************************************************)
(* Text helpers.                                                           *)
(***************************************************************************)
\* the value of F at x, with x computed once
With(x, F(_)) == CHOOSE r \in {F(v) : v \in {x}} : TRUE
With3(x, y, z, F(_, _, _)) == CHOOSE r \in {F(u, v, w) : u \in {x}, v \in {y}, w \in {z}} : TRUE

StartsWith(text, i, lit) ==
    /\ i >= 1
    /\ i + Len(lit) - 1 <= Len(text)
    /\ \A k \in 1..Len(lit) : text[i + k - 1] = lit[k]

\* str.__contains__: pat occurs in text as a contiguous substring
Contains(text, pat) ==
    \E i \in 1..(Len(text) + 1) : StartsWith(text, i, pat)

SetMin(S) == CHOOSE x \in S : \A y \in S : x <= y

\* index of the first character at or after i that is in S; Len(text)+1 when none
FirstIn(text, i, S) ==
    LET hits == {j \in i..Len(text) : text[j] \in S}
    IN  IF hits = {} THEN Len(text) + 1 ELSE SetMin(hits)

\* index of the first character at or after i that is not in S; Len(text)+1 when none
FirstNotIn(text, i, S) ==
    LET hits == {j \in i..Len(text) : text[j] \notin S}
    IN  IF hits = {} THEN Len(text) + 1 ELSE SetMin(hits)

(***************************************************************************)
(* xml.etree.ElementTree: the tree, its serialisation and its parser.      *)
(* An element is [tag, attrs, n]: attrs is the ordered list of             *)
(* <<name, value>> pairs and n the element's position in the parsed        *)
(* document, which stands for the identity of the Python object.           *)
(***************************************************************************)
NoTree == [tag |-> <<>>, attrs |-> <<>>, children |-> <<>>]

HasAttr(elem, name) == \E k \in 1..Len(elem.attrs) : elem.attrs[k][1] = name

\* Element.get(name, default)
GetAttr(elem, name, default) ==
    IF HasAttr(elem, name)
    THEN elem.attrs[CHOOSE k \in 1..Len(elem.attrs) : elem.attrs[k][1] = name][2]
    ELSE default

\* _escape_attrib, one character
EscapeChar(c) ==
    CASE c = "&" -> <<"&", "a", "m", "p", ";">>
      [] c = "<" -> <<"&", "l", "t", ";">>
      [] c = ">" -> <<"&", "g", "t", ";">>
      [] c = Quote -> <<"&", "q", "u", "o", "t", ";">>
      [] OTHER -> <<c>>

RECURSIVE EscapeAttrib(_)
EscapeAttrib(v) ==
    IF v = <<>> THEN <<>> ELSE EscapeChar(Head(v)) \o EscapeAttrib(Tail(v))

RECURSIVE SerializeAttrs(_)
SerializeAttrs(attrs) ==
    IF attrs = <<>> THEN <<>>
    ELSE <<" ">> \o Head(attrs)[1] \o <<"=", Quote>> \o EscapeAttrib(Head(attrs)[2])
         \o <<Quote>> \o SerializeAttrs(Tail(attrs))

\* a childless element: short_empty_elements writes <tag attrs />
SerializeEmpty(elem) ==
    <<"<">> \o elem.tag \o SerializeAttrs(elem.attrs) \o <<" ", "/", ">">>

RECURSIVE SerializeChildren(_)
SerializeChildren(children) ==
    IF children = <<>> THEN <<>>
    ELSE SerializeEmpty(Head(children)) \o SerializeChildren(Tail(children))

\* ElementTree.write(encoding='utf-8', xml_declaration=True)
Serialize(tree) ==
    XmlDecl \o
    (IF tree.children = <<>>
     THEN SerializeEmpty(tree)
     ELSE <<"<">> \o tree.tag \o SerializeAttrs(tree.attrs) \o <<">">>
          \o SerializeChildren(tree.children)
          \o <<"<", "/">> \o tree.tag \o <<">">>)

ParseFail == [ok |-> FALSE, pos |-> 0, val |-> <<>>, open |-> FALSE]

\* an attribute value, from the character after its opening quote
RECURSIVE ParseValue(_, _, _)
ParseValue(text0, i0, acc0) ==
    With3(text0, i0, acc0, LAMBDA text, i, acc :
        IF i > Len(text) THEN ParseFail
        ELSE IF text[i] = Quote
            THEN [ok |-> TRUE, pos |-> i + 1, val |-> acc, open |-> FALSE]
        ELSE IF text[i] = "<" THEN ParseFail
        ELSE IF text[i] = "&" THEN
            IF StartsWith(text, i, <<"&", "a", "m", "p", ";">>)
                THEN ParseValue(text, i + 5, Append(acc, "&"))
            ELSE IF StartsWith(text, i, <<"&", "l", "t", ";">>)
                THEN ParseValue(text, i + 4, Append(acc, "<"))
            ELSE IF StartsWith(text, i, <<"&", "g", "t", ";">>)
                THEN ParseValue(text, i + 4, Append(acc, ">"))
            ELSE IF StartsWith(text, i, <<"&", "q", "u", "o", "t", ";">>)
                THEN ParseValue(text, i + 6, Append(acc, Quote))
            ELSE ParseFail
        ELSE ParseValue(text, i + 1, Append(acc, text[i])))

\* the attributes of a start tag: ( name="value")*; a repeated name is not well-formed
RECURSIVE ParseAttrs(_, _, _)
ParseAttrs(text0, i0, acc0) ==
    With3(text0, i0, acc0, LAMBDA text, i, acc :
        IF i + 1 <= Len(text) /\ text[i] = " " /\ text[i + 1] \in NameChars
        THEN With(FirstNotIn(text, i + 1, NameChars), LAMBDA e :
                 IF StartsWith(text, e, <<"=", Quote>>)
                    /\ ~\E k \in 1..Len(acc) : acc[k][1] = SubSeq(text, i + 1, e - 1)
                 THEN With(ParseValue(text, e + 2, <<>>), LAMBDA v :
                          IF v.ok
                          THEN ParseAttrs(text, v.pos,
                                   Append(acc, <<SubSeq(text, i + 1, e - 1), v.val>>))
                          ELSE ParseFail)
                 ELSE ParseFail)
        ELSE [ok |-> TRUE, pos |-> i, val |-> acc, open |-> FALSE])

\* a start tag or an empty-element tag at i
ParseTag(text, i) ==
    IF ~(i + 1 <= Len(text) /\ text[i] = "<" /\ text[i + 1] \in NameChars) THEN ParseFail
    ELSE With(FirstNotIn(text, i + 1, NameChars), LAMBDA e :
         With(ParseAttrs(text, e, <<>>), LAMBDA a :
             IF ~a.ok THEN ParseFail
             ELSE With(IF a.pos <= Len(text) /\ text[a.pos] = " " THEN a.pos + 1 ELSE a.pos,
                       LAMBDA j :
                  IF StartsWith(text, j, <<"/", ">">>)
                      THEN [ok |-> TRUE, pos |-> j + 2, open |-> FALSE,
                            val |-> [tag |-> SubSeq(text, i + 1, e - 1), attrs |-> a.val]]
                  ELSE IF StartsWith(text, j, <<">">>)
                      THEN [ok |-> TRUE, pos |-> j + 1, open |-> TRUE,
                            val |-> [tag |-> SubSeq(text, i + 1, e - 1), attrs |-> a.val]]
                  ELSE ParseFail)))

\* the children of the root, up to its end tag; each child is an empty element
RECURSIVE ParseChildren(_, _, _)
ParseChildren(text0, i0, acc0) ==
    With3(text0, i0, acc0, LAMBDA text, i, acc :
        IF StartsWith(text, i, <<"<", "/">>)
        THEN [ok |-> TRUE, pos |-> i, val |-> acc, open |-> FALSE]
        ELSE With(ParseTag(text, i), LAMBDA t :
                 IF t.ok /\ ~t.open
                 THEN ParseChildren(text, t.pos,
                          Append(acc, [tag |-> t.val.tag, attrs |-> t.val.attrs,
                                       n |-> Len(acc) + 1]))
                 ELSE ParseFail))

\* ET.parse(...).getroot(): [ok, val]; ok = FALSE is ET.ParseError
Parse(text0) ==
    With(text0, LAMBDA text :
    With(ParseTag(text, IF StartsWith(text, 1, XmlDecl) THEN Len(XmlDecl) + 1 ELSE 1),
         LAMBDA r :
        IF ~r.ok THEN [ok |-> FALSE, val |-> NoTree]
        ELSE IF ~r.open
            THEN IF r.pos = Len(text) + 1
                 THEN [ok |-> TRUE,
                       val |-> [tag |-> r.val.tag, attrs |-> r.val.attrs, children |-> <<>>]]
                 ELSE [ok |-> FALSE, val |-> NoTree]
        ELSE With(ParseChildren(text, r.pos, <<>>), LAMBDA c :
                 IF /\ c.ok
                    /\ StartsWith(text, c.pos, <<"<", "/">> \o r.val.tag \o <<">">>)
                    /\ c.pos + Len(r.val.tag) + 3 = Len(text) + 1
                 THEN [ok |-> TRUE,
                       val |-> [tag |-> r.val.tag, attrs |-> r.val.attrs, children |-> c.val]]
                 ELSE [ok |-> FALSE, val |-> NoTree])))

(***************************************************************************)
(* The sorter's computation (sort_library_by_path, lines 31-44).           *)
(***************************************************************************)
\* root.findall('book'): the direct children named book, in document order
FindAllBooks(tree) == SelectSeq(tree.children, LAMBDA e : e.tag = BookTag)

\* key=lambda book: book.get('path', '')
SortKey(book) == GetAttr(book, PathAttr, <<>>)

\* a mutation of StrLess: shorter strings first, then by code point
RECURSIVE StrLessShortlex(_, _)
StrLessShortlex(a, b) ==
    IF Len(a) # Len(b) THEN Len(a) < Len(b)
    ELSE IF a = <<>> THEN FALSE
    ELSE IF Ord(Head(a)) # Ord(Head(b)) THEN Ord(Head(a)) < Ord(Head(b))
    ELSE StrLessShortlex(Tail(a), Tail(b))

\* str.__lt__: lexicographic order by code point
RECURSIVE StrLess(_, _)
StrLess(a, b) ==
    IF b = <<>> THEN FALSE
    ELSE IF a = <<>> THEN TRUE
    ELSE IF Ord(Head(a)) # Ord(Head(b)) THEN Ord(Head(a)) < Ord(Head(b))
    ELSE StrLess(Tail(a), Tail(b))

\* a mutation of InsertSorted: x goes before the elements whose key equals its own
RECURSIVE InsertBeforeEqual(_, _)
InsertBeforeEqual(s, x) ==
    IF s = <<>> THEN <<x>>
    ELSE IF ~StrLess(SortKey(Head(s)), SortKey(x)) THEN <<x>> \o s
    ELSE <<Head(s)>> \o InsertBeforeEqual(Tail(s), x)

\* one step of the stable sort: x goes after every element whose key is <= its own
RECURSIVE InsertSorted(_, _)
InsertSorted(s, x) ==
    IF s = <<>> THEN <<x>>
    ELSE IF StrLess(SortKey(x), SortKey(Head(s))) THEN <<x>> \o s
    ELSE <<Head(s)>> \o InsertSorted(Tail(s), x)

RECURSIVE SortInto(_, _)
SortInto(acc, rest) ==
    IF rest = <<>> THEN acc ELSE SortInto(InsertSorted(acc, Head(rest)), Tail(rest))

\* sorted(books, key=...): Python's sort is stable and ascending
Sorted(books) == SortInto(<<>>, books)

\* a mutation of RemoveBooks: the loop that removes the books is left out
RemoveNothing(children, books) == children

\* for book in books: root.remove(book) -- removal is by object identity
RemoveBooks(children, books) ==
    SelectSeq(children, LAMBDA e : ~\E k \in 1..Len(books) : books[k].n = e.n)

\* a mutation of AppendBooks: the sorted books are put in front of the other children
PrependBooks(children, sorted_books) == sorted_books \o children

\* for book in sorted_books: root.append(book)
AppendBooks(children, sorted_books) == children \o sorted_books

\* lines 31-44 on the tree
Reorder(tree) ==
    LET books == FindAllBooks(tree)
        sorted_books == Sorted(books)
    IN  [tree EXCEPT !.children = AppendBooks(RemoveBooks(tree.children, books), sorted_books)]

(***************************************************************************)
(* The verifier's computation (verify_book_ids, lines 83-123).             *)
(***************************************************************************)
\* the regular expression book id="([^"]+)" tried at position j: the index of
\* the closing quote of the match, or 0 when there is no match at j.  The
\* group is one or more characters other than a quote, followed by a quote.
MatchEnd(text, j) ==
    IF StartsWith(text, j, BookIdPrefix)
    THEN With(FirstIn(text, j + Len(BookIdPrefix), {Quote}), LAMBDA e :
             IF e > j + Len(BookIdPrefix) /\ e <= Len(text) THEN e ELSE 0)
    ELSE 0

\* re.findall from position i: the leftmost match at or after i, then the
\* matches after its end (matches do not overlap)
RECURSIVE FindAllFrom(_, _)
FindAllFrom(text0, i0) ==
    With3(text0, i0, {j \in i0..Len(text0) : MatchEnd(text0, j) > 0}, LAMBDA text, i, starts :
        IF starts = {} THEN <<>>
        ELSE With(SetMin(starts), LAMBDA j :
                 <<SubSeq(text, j + Len(BookIdPrefix), MatchEnd(text, j) - 1)>>
                 \o FindAllFrom(text, MatchEnd(text, j) + 1)))

FindAllIds(text) == FindAllFrom(text, 1)

Range(s) == {s[k] : k \in 1..Len(s)}

\* Counter(all_input_ids)[v]
CountOf(ids, v) == Cardinality({k \in 1..Len(ids) : ids[k] = v})

\* a mutation of HasDuplicates: the comparison admits equality
HasDuplicatesOrEqual(ids) == Len(ids) >= Cardinality(Range(ids))

\* len(all_input_ids) > len(unique_input_ids)
HasDuplicates(ids) == Len(ids) > Cardinality(Range(ids))

\* {item: count for item, count in counts.items() if count > 1}
Duplicates(ids) == {<<v, CountOf(ids, v)>> : v \in {w \in Range(ids) : CountOf(ids, w) > 1}}

\* the order in which a Python set is iterated: some fixed order of its members
RECURSIVE IterationOrder(_)
IterationOrder(S) ==
    IF S = {} THEN <<>>
    ELSE LET x == CHOOSE y \in S : TRUE IN <<x>> \o IterationOrder(S \ {x})

\* a mutation of SearchPattern: the pattern is written with single quotes
SearchPatternSingleQuoted(book_id) == <<"i", "d", "=", "'">> \o book_id \o <<"'">>

\* f'id="{book_id}"'
SearchPattern(book_id) == IdPrefix \o book_id \o <<Quote>>

\* a mutation of MissingIds: the loop runs over the list with its repetitions
MissingIdsOfList(ids, output_content) ==
    SelectSeq(ids, LAMBDA v : ~Contains(output_content, SearchPattern(v)))

\* lines 108-114: the unique ids whose pattern is not in the output text
MissingIds(ids, output_content) ==
    SelectSeq(IterationOrder(Range(ids)),
              LAMBDA v : ~Contains(output_content, SearchPattern(v)))

(***************************************************************************)
(* Printed messages.                                                       *)
(***************************************************************************)
Msg(kind, file, ids, dups, n) ==
    [kind |-> kind, file |-> file, ids |-> ids, dups |-> dups, n |-> n]

Plain(kind) == Msg(kind, "", <<>>, {}, 0)

Printed(kind) == \E k \in 1..Len(console) : console[k].kind = kind

CountPrinted(kinds) == Cardinality({k \in 1..Len(console) : console[k].kind \in kinds})


(***************************************************************************)
(* Input files.                                                            *)
(***************************************************************************)
LibraryTag == <<"l", "i", "b", "r", "a", "r", "y">>

Book(attrs) == [tag |-> BookTag, attrs |-> attrs]

\* the elements an input catalog is made of
Pool ==
    { Book(<< <<IdAttr, <<"a">>>>, <<PathAttr, <<"a">>>> >>),
      Book(<< <<IdAttr, <<"b">>>>, <<PathAttr, <<"B", "b">>>> >>),
      Book(<< <<IdAttr, <<"a", ">">>>> >>),
      Book(<< <<PathAttr, <<>>>>, <<IdAttr, <<"b">>>> >>),
      [tag |-> <<"m", "e", "t", "a">>, attrs |-> << <<<<"n", "a", "m", "e">>, <<"a">>>> >>],
      [tag |-> <<"e", "b", "o", "o", "k">>, attrs |-> << <<IdAttr, <<"a">>>> >>] }

SeqsUpTo(S, n) == UNION {[1..k -> S] : k \in 0..n}

Catalogs == SeqsUpTo(Pool, MaxChildren)

TreeOf(c) ==
    [tag |-> LibraryTag, attrs |-> <<>>,
     children |-> [k \in 1..Len(c) |-> [tag |-> c[k].tag, attrs |-> c[k].attrs, n |-> k]]]

\* a hand-written file: no declaration, <tag .../> without the space, and > left
\* as it is in attribute values
RECURSIVE RawValue(_)
RawValue(v) ==
    IF v = <<>> THEN <<>>
    ELSE (IF Head(v) = ">" THEN <<">">> ELSE EscapeChar(Head(v))) \o RawValue(Tail(v))

RECURSIVE RawAttrs(_)
RawAttrs(attrs) ==
    IF attrs = <<>> THEN <<>>
    ELSE <<" ">> \o Head(attrs)[1] \o <<"=", Quote>> \o RawValue(Head(attrs)[2])
         \o <<Quote>> \o RawAttrs(Tail(attrs))

RECURSIVE RawChildren(_)
RawChildren(c) ==
    IF c = <<>> THEN <<>>
    ELSE <<"<">> \o Head(c).tag \o RawAttrs(Head(c).attrs) \o <<"/", ">">>
         \o RawChildren(Tail(c))

RenderRaw(c) ==
    IF c = <<>> THEN <<"<">> \o LibraryTag \o <<"/", ">">>
    ELSE <<"<">> \o LibraryTag \o <<">">> \o RawChildren(c)
         \o <<"<", "/">> \o LibraryTag \o <<">">>

WellFormedTexts ==
    {Serialize(TreeOf(c)) : c \in Catalogs} \cup {RenderRaw(c) : c \in Catalogs}

\* files cut short: not well-formed XML
MalformedTexts ==
    {SubSeq(RenderRaw(c), 1, Len(RenderRaw(c)) - 1) : c \in SeqsUpTo(Pool, 1)}

NoFile == [exists |-> FALSE, text |-> <<>>]
File(text) == [exists |-> TRUE, text |-> text]

InputFiles == {NoFile} \cup {File(t) : t \in WellFormedTexts \cup MalformedTexts}

\* what a previous run may have left at the output path
StaleOutput ==
    File(Serialize(TreeOf(<< Book(<< <<IdAttr, <<"b">>>>, <<PathAttr, <<"a">>>> >>) >>)))

(***************************************************************************)
(* The program: the entry point (lines 131-143) calling the sorter and     *)
(* the verifier.                                                           *)
(***************************************************************************)
Init ==
    /\ inputFile \in InputFiles
    /\ outputFile \in {NoFile, StaleOutput}
    /\ pc = "main_start"
    /\ root = NoTree
    /\ success = "none"
    /\ console = <<>>
    /\ all_input_ids = <<>>
    /\ inputAtCall = inputFile
    /\ outputAtCall = outputFile
    /\ reachedWrite = FALSE
    /\ verifierCalls = 0
    /\ fedBack = FALSE

\* lines 25-27, 55-56, 61: ET.parse raises FileNotFoundError
SortInputNotFound ==
    /\ pc = "main_start"
    /\ ~inputFile.exists
    /\ inputAtCall' = inputFile
    /\ outputAtCall' = outputFile
    /\ console' = Append(console, Msg("sort_not_found", "input", <<>>, {}, 0))
    /\ success' = "False"
    /\ pc' = "main_after_sort"
    /\ UNCHANGED <<inputFile, outputFile, root, all_input_ids, reachedWrite,
                   verifierCalls, fedBack>>

\* a mutation of SortParseError: the output file is opened for writing, and
\* so emptied, before the input is parsed
SortParseErrorTruncates ==
    /\ pc = "main_start"
    /\ inputFile.exists
    /\ ~Parse(inputFile.text).ok
    /\ inputAtCall' = inputFile
    /\ outputAtCall' = outputFile
    /\ outputFile' = File(<<>>)
    /\ console' = Append(console, Msg("sort_parse_error", "input", <<>>, {}, 0))
    /\ success' = "False"
    /\ pc' = "main_after_sort"
    /\ UNCHANGED <<inputFile, root, all_input_ids, reachedWrite, verifierCalls, fedBack>>

\* lines 25-27, 57-58, 61: ET.parse raises ET.ParseError
SortParseError ==
    /\ pc = "main_start"
    /\ inputFile.exists
    /\ ~Parse(inputFile.text).ok
    /\ inputAtCall' = inputFile
    /\ outputAtCall' = outputFile
    /\ console' = Append(console, Msg("sort_parse_error", "input", <<>>, {}, 0))
    /\ success' = "False"
    /\ pc' = "main_after_sort"
    /\ UNCHANGED <<inputFile, outputFile, root, all_input_ids, reachedWrite,
                   verifierCalls, fedBack>>

\* lines 27-28: the input is parsed
SortParseOk ==
    /\ pc = "main_start"
    /\ inputFile.exists
    /\ Parse(inputFile.text).ok
    /\ inputAtCall' = inputFile
    /\ outputAtCall' = outputFile
    /\ root' = Parse(inputFile.text).val
    /\ pc' = "sort_parsed"
    /\ UNCHANGED <<inputFile, outputFile, success, console, all_input_ids,
                   reachedWrite, verifierCalls, fedBack>>

\* lines 31-44: findall, sorted, remove, append
SortReorder ==
    /\ pc = "sort_parsed"
    /\ root' = Reorder(root)
    /\ pc' = "sort_ready"
    /\ UNCHANGED <<inputFile, outputFile, success, console, all_input_ids,
                   inputAtCall, outputAtCall, reachedWrite, verifierCalls, fedBack>>

\* lines 47-53: the tree is written and the sorter returns True
SortWriteOk ==
    /\ pc = "sort_ready"
    /\ outputFile' = File(Serialize(root))
    /\ reachedWrite' = TRUE
    /\ console' = Append(console, Plain("sort_ok"))
    /\ success' = "True"
    /\ pc' = "main_after_sort"
    /\ UNCHANGED <<inputFile, root, all_input_ids, inputAtCall, outputAtCall, verifierCalls, fedBack>>

\* lines 51, 59-61: the write raises; the file is untouched (the open failed),
\* emptied, or holds the first part of the text
SortWriteFails ==
    /\ pc = "sort_ready"
    /\ \E f \in {outputFile, File(<<>>), File(SubSeq(Serialize(root), 1, Len(XmlDecl)))} :
          outputFile' = f
    /\ reachedWrite' = TRUE
    /\ console' = Append(console, Plain("sort_unexpected"))
    /\ success' = "False"
    /\ pc' = "main_after_sort"
    /\ UNCHANGED <<inputFile, root, all_input_ids, inputAtCall, outputAtCall, verifierCalls, fedBack>>

\* the environment removes a file after the sorter has returned True and
\* before the verifier runs
DeleteFile ==
    /\ pc = "main_after_sort"
    /\ success = "True"
    /\ \/ /\ outputFile.exists
          /\ outputFile' = NoFile
          /\ UNCHANGED inputFile
       \/ /\ inputFile.exists /\ outputFile.exists
          /\ inputFile' = NoFile
          /\ UNCHANGED outputFile
    /\ UNCHANGED <<pc, root, success, console, all_input_ids, inputAtCall, outputAtCall,
                   reachedWrite, verifierCalls, fedBack>>

\* a mutation of MainCallsVerifier: the verifier is called whatever the sorter returned
MainCallsVerifierAlways ==
    /\ pc = "main_after_sort"
    /\ verifierCalls' = verifierCalls + 1
    /\ console' = Append(console, Plain("verify_banner"))
    /\ pc' = "verify_start"
    /\ UNCHANGED <<inputFile, outputFile, root, success, all_input_ids, inputAtCall,
                   outputAtCall, reachedWrite, fedBack>>

\* lines 142-143 and 76: success is true, the verifier is called
MainCallsVerifier ==
    /\ pc = "main_after_sort"
    /\ success = "True"
    /\ verifierCalls' = verifierCalls + 1
    /\ console' = Append(console, Plain("verify_banner"))
    /\ pc' = "verify_start"
    /\ UNCHANGED <<inputFile, outputFile, root, success, all_input_ids, inputAtCall, outputAtCall,
                   reachedWrite, fedBack>>

\* line 142: success is false, the program ends
MainSkipsVerifier ==
    /\ pc = "main_after_sort"
    /\ success = "False"
    /\ pc' = "done"
    /\ UNCHANGED <<inputFile, outputFile, root, success, console, all_input_ids,
                   inputAtCall, outputAtCall, reachedWrite, verifierCalls, fedBack>>

\* lines 79, 125-126: the input file cannot be opened
VerifyInputNotFound ==
    /\ pc = "verify_start"
    /\ ~inputFile.exists
    /\ console' = Append(console, Msg("verify_not_found", "input", <<>>, {}, 0))
    /\ pc' = "done"
    /\ UNCHANGED <<inputFile, outputFile, root, success, all_input_ids, inputAtCall, outputAtCall,
                   reachedWrite, verifierCalls, fedBack>>

\* lines 79-87: no id is extracted
VerifyNoIds ==
    /\ pc = "verify_start"
    /\ inputFile.exists
    /\ FindAllIds(inputFile.text) = <<>>
    /\ all_input_ids' = <<>>
    /\ console' = Append(console, Plain("no_ids_warning"))
    /\ pc' = "done"
    /\ UNCHANGED <<inputFile, outputFile, root, success, inputAtCall, outputAtCall, reachedWrite,
                   verifierCalls, fedBack>>

\* lines 79-101: ids are extracted, duplicates are warned about
VerifyExtractIds ==
    /\ pc = "verify_start"
    /\ inputFile.exists
    /\ LET ids == FindAllIds(inputFile.text)
       IN  /\ ids # <<>>
           /\ all_input_ids' = ids
           /\ console' =
                 console
                 \o (IF HasDuplicates(ids)
                     THEN <<Msg("duplicate_warning", "input", <<>>, Duplicates(ids), 0)>>
                     ELSE <<>>)
                 \o <<Msg("found_unique", "input", <<>>, {}, Cardinality(Range(ids)))>>
    /\ pc' = "verify_ids"
    /\ UNCHANGED <<inputFile, outputFile, root, success, inputAtCall, outputAtCall, reachedWrite,
                   verifierCalls, fedBack>>

\* a mutation of VerifyOutputNotFound: a missing output file is read as an
\* empty one, so every id is reported missing
VerifyOutputNotFoundAsEmpty ==
    /\ pc = "verify_ids"
    /\ ~outputFile.exists
    /\ console' = Append(console,
                         Msg("verify_failed", "output", MissingIds(all_input_ids, <<>>), {},
                             Cardinality(Range(all_input_ids))))
    /\ pc' = "done"
    /\ UNCHANGED <<inputFile, outputFile, root, success, all_input_ids, inputAtCall,
                   outputAtCall, reachedWrite, verifierCalls, fedBack>>

\* lines 104, 125-126: the output file cannot be opened
VerifyOutputNotFound ==
    /\ pc = "verify_ids"
    /\ ~outputFile.exists
    /\ console' = Append(console, Msg("verify_not_found", "output", <<>>, {}, 0))
    /\ pc' = "done"
    /\ UNCHANGED <<inputFile, outputFile, root, success, all_input_ids, inputAtCall, outputAtCall,
                   reachedWrite, verifierCalls, fedBack>>

\* lines 104-123: the search and the verdict
VerifyVerdict ==
    /\ pc = "verify_ids"
    /\ outputFile.exists
    /\ LET missing_ids == MissingIds(all_input_ids, outputFile.text)
       IN  console' =
              Append(console,
                     IF missing_ids = <<>>
                     THEN Msg("verify_ok", "output", <<>>, {},
                              Cardinality(Range(all_input_ids)))
                     ELSE Msg("verify_failed", "output", missing_ids, {}, Len(missing_ids)))
    /\ pc' = "done"
    /\ UNCHANGED <<inputFile, outputFile, root, success, all_input_ids, inputAtCall, outputAtCall,
                   reachedWrite, verifierCalls, fedBack>>

\* the user feeds the sorted file back: it becomes the input of a new run
RunAgainOnOutput ==
    /\ pc = "done"
    /\ success = "True"
    /\ ~fedBack
    /\ outputFile.exists
    /\ inputFile' = outputFile
    /\ inputAtCall' = outputFile
    /\ fedBack' = TRUE
    /\ pc' = "main_start"
    /\ root' = NoTree
    /\ success' = "none"
    /\ console' = <<>>
    /\ all_input_ids' = <<>>
    /\ outputAtCall' = outputFile
    /\ reachedWrite' = FALSE
    /\ verifierCalls' = 0
    /\ UNCHANGED outputFile

Next ==
    \/ SortInputNotFound
    \/ SortParseError
    \/ SortParseOk
    \/ SortReorder
    \/ SortWriteOk
    \/ SortWriteFails
    \/ DeleteFile
    \/ MainCallsVerifier
    \/ MainSkipsVerifier
    \/ VerifyInputNotFound
    \/ VerifyNoIds
    \/ VerifyExtractIds
    \/ VerifyOutputNotFound
    \/ VerifyVerdict
    \/ RunAgainOnOutput

Spec == Init /\ [][Next]_vars

(***************************************************************************)
(* The verifier called on its own, on arbitrary file contents.             *)
(***************************************************************************)
InChunks ==
    { <<"b", "o", "o", "k", " ", "i", "d", "=", Quote, "a", Quote>>,
      <<"b", "o", "o", "k", " ", "i", "d", "=", Quote, "b", Quote>>,
      BookIdPrefix,
      <<"a">>,
      <<Quote>> }

OutChunks ==
    { <<"i", "d", "=", Quote, "a", Quote>>,
      <<"b", "o", "o", "k", " ", "i", "d", "=", Quote, "b", Quote>>,
      IdPrefix }

RECURSIVE Concat(_)
Concat(chunks) == IF chunks = <<>> THEN <<>> ELSE Head(chunks) \o Concat(Tail(chunks))

InTexts == {Concat(c) : c \in SeqsUpTo(InChunks, MaxInChunks)}
OutTexts == {Concat(c) : c \in SeqsUpTo(OutChunks, MaxOutChunks)}

InitVerify ==
    /\ inputFile \in {NoFile} \cup {File(t) : t \in InTexts}
    /\ outputFile \in {NoFile} \cup {File(t) : t \in OutTexts}
    /\ pc = "verify_start"
    /\ root = NoTree
    /\ success = "none"
    /\ console = <<Plain("verify_banner")>>
    /\ all_input_ids = <<>>
    /\ inputAtCall = inputFile
    /\ outputAtCall = outputFile
    /\ reachedWrite = FALSE
    /\ verifierCalls = 1
    /\ fedBack = FALSE

NextVerify ==
    \/ VerifyInputNotFound
    \/ VerifyNoIds
    \/ VerifyExtractIds
    \/ VerifyOutputNotFound
    \/ VerifyVerdict

SpecVerify == InitVerify /\ [][NextVerify]_vars


(***************************************************************************)
(* Properties of the sorter.  The output is read back from the output      *)
(* file, the input from the file as it was when the sorter was called.     *)
(***************************************************************************)
Strip(e) == [tag |-> e.tag, attrs |-> e.attrs]

StripAll(elems) == [k \in 1..Len(elems) |-> Strip(elems[k])]

InputChildren == StripAll(Parse(inputAtCall.text).val.children)
OutputChildren == StripAll(Parse(outputFile.text).val.children)

IsBook(e) == e.tag = BookTag

InputBooks == SelectSeq(InputChildren, IsBook)
OutputBooks == SelectSeq(OutputChildren, IsBook)

HasPath(e) == \E k \in 1..Len(e.attrs) : e.attrs[k][1] = PathAttr

\* the value of the path attribute, or the empty string when it is absent
PathOrEmpty(e) ==
    IF HasPath(e)
    THEN e.attrs[CHOOSE k \in 1..Len(e.attrs) : e.attrs[k][1] = PathAttr][2]
    ELSE <<>>

\* a <= b in lexicographic order by code point
LexLeq(a, b) ==
    \/ Len(a) <= Len(b) /\ \A k \in 1..Len(a) : a[k] = b[k]
    \/ \E i \in 1..Len(a) :
          /\ i <= Len(b)
          /\ \A k \in 1..(i - 1) : a[k] = b[k]
          /\ Ord(a[i]) < Ord(b[i])

Occurrences(seq, x) == Cardinality({k \in 1..Len(seq) : seq[k] = x})

\* the sorter has just returned True and both files are as it left them
SortSucceeded ==
    /\ pc = "main_after_sort"
    /\ success = "True"
    /\ outputFile.exists
    /\ inputFile = inputAtCall

\* C1: after a successful sort the sort keys (path, or "" when absent) of the
\* book children of the output are non-decreasing in lexicographic order, and
\* every book without a path precedes every book with a non-empty path.
C1_SortedByPath ==
    SortSucceeded =>
        \A books \in {OutputBooks} :
            /\ \A i, j \in 1..Len(books) :
                  i < j => LexLeq(PathOrEmpty(books[i]), PathOrEmpty(books[j]))
            /\ \A i, j \in 1..Len(books) :
                  (~HasPath(books[i]) /\ PathOrEmpty(books[j]) # <<>>) => i < j

\* C1 witness: the input had a book with a non-empty path before a book
\* without a path, and two paths out of order, and the sort succeeded.
C1_Witness ==
    /\ SortSucceeded
    /\ \E books \in {InputBooks} :
          /\ \E i, j \in 1..Len(books) :
                i < j /\ PathOrEmpty(books[i]) # <<>> /\ ~HasPath(books[j])
          /\ \E i, j \in 1..Len(books) :
                /\ i < j
                /\ PathOrEmpty(books[j]) # <<>>
                /\ ~LexLeq(PathOrEmpty(books[i]), PathOrEmpty(books[j]))

\* C2: the sort is stable: for every key, the books of the input that have
\* that key appear in the output in the same relative order.
C2_Stable ==
    SortSucceeded =>
        \A before \in {InputBooks}, after \in {OutputBooks} :
            \A b \in Range(before) :
                SelectSeq(after, LAMBDA e : PathOrEmpty(e) = PathOrEmpty(b))
                = SelectSeq(before, LAMBDA e : PathOrEmpty(e) = PathOrEmpty(b))

\* C2 witness: two different books share a key (one has no path, the other
\* an empty one) and a book with a larger key stood before them.
C2_Witness ==
    /\ SortSucceeded
    /\ \E books \in {InputBooks} :
          \E i, j, k \in 1..Len(books) :
              /\ i < j /\ j < k
              /\ PathOrEmpty(books[i]) # <<>>
              /\ books[j] # books[k]
              /\ PathOrEmpty(books[j]) = <<>>
              /\ PathOrEmpty(books[k]) = <<>>

\* C3: the books of the output, each with its tag and all its attributes,
\* are the books of the input, counting repetitions.
C3_ContentPreserved ==
    SortSucceeded =>
        \A before \in {InputBooks}, after \in {OutputBooks} :
            /\ Len(after) = Len(before)
            /\ \A b \in Range(before) \cup Range(after) :
                  Occurrences(after, b) = Occurrences(before, b)

\* C3 witness: the same book occurs twice in the input, another book shares
\* its id, and the sort moved books.
C3_Witness ==
    /\ SortSucceeded
    /\ \E before \in {InputBooks} :
          /\ \E b \in Range(before) : Occurrences(before, b) = 2
          /\ \E i, j \in 1..Len(before) :
                /\ before[i] # before[j]
                /\ GetAttr(before[i], IdAttr, <<>>) = GetAttr(before[j], IdAttr, <<>>)
          /\ OutputBooks # before

\* C10: after a successful sort every non-book child precedes every book
\* child, the non-book children are those of the input in their order, and
\* the books are the tail of the root's children.
C10_BooksMoveBehind ==
    SortSucceeded =>
        \A before \in {InputChildren}, after \in {OutputChildren} :
            /\ \A i, j \in 1..Len(after) :
                  (IsBook(after[i]) /\ ~IsBook(after[j])) => j < i
            /\ SelectSeq(after, LAMBDA e : ~IsBook(e))
               = SelectSeq(before, LAMBDA e : ~IsBook(e))
            /\ after = SelectSeq(after, LAMBDA e : ~IsBook(e)) \o SelectSeq(after, IsBook)

\* C10 witness: in the input a non-book child stood between two books.
C10_Witness ==
    /\ SortSucceeded
    /\ \E before \in {InputChildren} :
          \E i, j, k \in 1..Len(before) :
              /\ i < j /\ j < k
              /\ IsBook(before[i])
              /\ ~IsBook(before[j])
              /\ IsBook(before[k])


\* the sorter has returned
SortReturned == pc \notin {"main_start", "sort_parsed", "sort_ready"}

\* C4: the sorter returns True only after reaching the write, and only for
\* a well-formed input; when the input file is missing or not well-formed it
\* prints the matching error, returns False and leaves the output file as it
\* was at the call.
C4_FailureLeavesOutput ==
    /\ success = "True" => reachedWrite
    /\ (pc = "main_after_sort" /\ success = "True") =>
          (inputAtCall.exists /\ Parse(inputAtCall.text).ok)
    /\ (SortReturned /\ ~inputAtCall.exists) =>
          /\ success = "False"
          /\ Printed("sort_not_found")
          /\ ~reachedWrite
          /\ outputFile = outputAtCall
    /\ (SortReturned /\ success = "False" /\ inputAtCall.exists
        /\ ~Parse(inputAtCall.text).ok) =>
          /\ Printed("sort_parse_error")
          /\ ~reachedWrite
          /\ outputFile = outputAtCall

\* C4 witness: the input was not well-formed, an older output file existed,
\* and the program has ended.
C4_Witness ==
    /\ pc = "done"
    /\ inputAtCall.exists
    /\ ~Parse(inputAtCall.text).ok
    /\ outputAtCall.exists
    /\ outputFile = outputAtCall

VerifierKinds ==
    {"verify_banner", "no_ids_warning", "duplicate_warning", "found_unique",
     "verify_ok", "verify_failed", "verify_not_found"}

\* C5: the verifier is called at most once, only after the sorter has
\* returned True, and the program ends having called it exactly when the
\* sorter returned True; with a missing input it is never called.
C5_VerifierIffSuccess ==
    /\ verifierCalls \in {0, 1}
    /\ verifierCalls = 1 => (SortReturned /\ success = "True")
    /\ pc \in {"verify_start", "verify_ids"} => verifierCalls = 1
    /\ pc = "done" => (verifierCalls = 1 <=> success = "True")
    /\ (SortReturned /\ ~inputAtCall.exists) => verifierCalls = 0
    /\ \A k \in 1..Len(console) :
          console[k].kind \in VerifierKinds =>
              /\ verifierCalls = 1
              /\ \E j \in 1..(k - 1) : console[j].kind = "sort_ok"

\* C5 witness: the program has ended after a successful sort and a verdict
\* of the verifier.
C5_Witness ==
    /\ pc = "done"
    /\ success = "True"
    /\ verifierCalls = 1
    /\ Printed("verify_ok")

\* no two children of the input catalog carry the same id
NoRepeatedId ==
    \A children \in {InputChildren} :
        \A i, j \in 1..Len(children) :
            (/\ i # j
             /\ HasAttr(children[i], IdAttr)
             /\ HasAttr(children[j], IdAttr))
            => GetAttr(children[i], IdAttr, <<>>) # GetAttr(children[j], IdAttr, <<>>)

\* C9: when the input is the output of a successful sort, sorting it again
\* yields the same sequence of books, and the verifier run on that pair
\* reports no missing id and, if no id is repeated in the catalog, no
\* duplicate.
C9_Idempotent ==
    /\ (fedBack /\ SortSucceeded) => OutputBooks = InputBooks
    /\ (fedBack /\ pc = "done" /\ verifierCalls = 1 /\ inputFile = inputAtCall
        /\ outputFile.exists) =>
          /\ ~Printed("verify_failed")
          /\ Printed("verify_ok") \/ Printed("no_ids_warning")
          /\ Printed("duplicate_warning") => ~NoRepeatedId

\* C9 witness: the second run has ended with a success verdict on a catalog
\* of three books with three different ids, one of them needing an escape.
C9_Witness ==
    /\ fedBack
    /\ pc = "done"
    /\ Printed("verify_ok")
    /\ ~Printed("duplicate_warning")
    /\ Len(InputBooks) = 3
    /\ Cardinality(Range(all_input_ids)) = 3

(***************************************************************************)
(* Properties of the verifier, on arbitrary file contents.                 *)
(***************************************************************************)
Verdicts == {"verify_ok", "verify_failed"}

\* the unique ids of the input text whose pattern id="v" is not in the output text
AbsentIds ==
    {v \in Range(FindAllIds(inputFile.text)) :
        ~Contains(outputFile.text, <<"i", "d", "=", Quote>> \o v \o <<Quote>>)}

\* C6: when both files are read and at least one id is extracted, exactly
\* one verdict is printed: success if every unique id occurs in the output as
\* id="v", else the failure message listing exactly the absent ids, each once.
C6_Verdict ==
    (/\ pc = "done"
     /\ inputFile.exists
     /\ outputFile.exists
     /\ FindAllIds(inputFile.text) # <<>>) =>
        \A absent \in {AbsentIds} :
            /\ CountPrinted(Verdicts) = 1
            /\ absent = {} => Printed("verify_ok")
            /\ absent # {} =>
                  \E k \in 1..Len(console) :
                      /\ console[k].kind = "verify_failed"
                      /\ Range(console[k].ids) = absent
                      /\ Len(console[k].ids) = Cardinality(absent)

\* C6 witness: two unique ids, one of them extracted twice and absent from
\* the output, the other present; the failure message lists the absent one.
C6_Witness ==
    /\ pc = "done"
    /\ Cardinality(Range(all_input_ids)) = 2
    /\ \E k \in 1..Len(console) :
          /\ console[k].kind = "verify_failed"
          /\ Len(console[k].ids) = 1
          /\ Occurrences(all_input_ids, console[k].ids[1]) = 2

\* C7 as claimed: whenever either file cannot be opened, a file-not-found
\* message naming a missing file is printed and no verdict is.
C7_AsClaimed ==
    (pc = "done" /\ (~inputFile.exists \/ ~outputFile.exists)) =>
        /\ CountPrinted(Verdicts) = 0
        /\ \E k \in 1..Len(console) :
              /\ console[k].kind = "verify_not_found"
              /\ \/ console[k].file = "input" /\ ~inputFile.exists
                 \/ console[k].file = "output" /\ ~outputFile.exists

\* C7 amended: a missing input file, or a missing output file when at least
\* one id was extracted from the input, is reported by a file-not-found
\* message naming it, and no verdict is printed; a missing output file when
\* no id was extracted is not reported: the verifier prints the no-ids
\* warning and returns before it opens the output, again with no verdict.
C7_NotFoundUnlessNoIds ==
    pc = "done" =>
        /\ ~inputFile.exists =>
              /\ CountPrinted(Verdicts) = 0
              /\ \E k \in 1..Len(console) :
                    console[k].kind = "verify_not_found" /\ console[k].file = "input"
        /\ (inputFile.exists /\ ~outputFile.exists /\ FindAllIds(inputFile.text) # <<>>) =>
              /\ CountPrinted(Verdicts) = 0
              /\ \E k \in 1..Len(console) :
                    console[k].kind = "verify_not_found" /\ console[k].file = "output"
        /\ (inputFile.exists /\ ~outputFile.exists /\ FindAllIds(inputFile.text) = <<>>) =>
              /\ CountPrinted(Verdicts) = 0
              /\ ~Printed("verify_not_found")
              /\ Printed("no_ids_warning")

\* C7 witness: the input is readable and holds a duplicated id, the output
\* file is missing, and the verifier has reported it.
C7_Witness ==
    /\ pc = "done"
    /\ inputFile.exists
    /\ ~outputFile.exists
    /\ Printed("duplicate_warning")
    /\ \E k \in 1..Len(console) :
          console[k].kind = "verify_not_found" /\ console[k].file = "output"

\* C8: the duplicate warning is printed exactly when some id is extracted
\* more than once; it lists exactly those ids, each with its number of
\* occurrences; and with every unique id present in the output the verdict
\* is still the success message.
C8_DuplicateWarning ==
    (pc \in {"verify_ids", "done"} /\ inputFile.exists) =>
        \A ids \in {FindAllIds(inputFile.text)} :
            /\ Printed("duplicate_warning")
               <=> \E v \in Range(ids) : Occurrences(ids, v) > 1
            /\ CountPrinted({"duplicate_warning"}) <= 1
            /\ \A k \in 1..Len(console) :
                  console[k].kind = "duplicate_warning" =>
                      console[k].dups =
                          {<<v, Occurrences(ids, v)>> :
                              v \in {w \in Range(ids) : Occurrences(ids, w) > 1}}
            /\ (/\ pc = "done"
                /\ outputFile.exists
                /\ ids # <<>>
                /\ AbsentIds = {}) => Printed("verify_ok")

\* C8 witness: the id a was extracted twice, the warning cites it with
\* count 2, and the verdict is the success message.
C8_Witness ==
    /\ pc = "done"
    /\ Printed("verify_ok")
    /\ \E k \in 1..Len(console) :
          /\ console[k].kind = "duplicate_warning"
          /\ console[k].dups = {<<(<<"a">>), 2>>}


====
